---- MODULE Spec2Model ----
(***************************************************************************)
(* Model of examples/cylinder2D_openfoam_Re100/cleanrl_ppo_bounded.py:     *)
(* the PPO training script that drives an OpenFOAM/preCICE flow-control    *)
(* environment.                                                            *)
(*                                                                         *)
(*   Spec       the rollout loop with sub-cycled action interpolation      *)
(*              (lines 662-729)                                            *)
(*   SpecGAE    the advantage and return computation over one rollout      *)
(*              buffer (lines 732-758)                                     *)
(*   SpecAgent  the bounded-action policy: squash, rescale and the inverse *)
(*              map of the log-probability (lines 37-53, 118-187)          *)
(*   SpecUpdate the PPO update: epochs over shuffled minibatches with the  *)
(*              clipped losses and the KL early stop (lines 760-847)       *)
(*   SpecSde    the rollout loop with state-dependent exploration          *)
(*              (lines 643-729)                                            *)
(*   SpecSetup  the run folder setup followed by the rollout loop          *)
(*              (lines 602-729)                                            *)
(*   SpecRecorder  the episode statistics of WandBRewardRecoder            *)
(*              (lines 320-385)                                            *)
(*                                                                         *)
(* Log-probabilities are counted in units of ln 2, so that exp is exact.   *)
(* Tensor arithmetic is modelled over exact rationals <<n, d>> (d > 0, in  *)
(* lowest terms); float32 rounding is not modelled.  Environment indices   *)
(* are 0-based as in the source.                                           *)
(***************************************************************************)
EXTENDS Integers, Sequences, FiniteSets, TLC

\* control state and the buffers shared by the phases of the main loop
VARIABLES num_envs, pc, next_done, dones

\* rollout loop
VARIABLES use_relative_action, update, step, subcycle_counter, prev_action,
          start_action, action, smoothed_action, done, reported

\* advantage computation
VARIABLES gae, gamma, gae_lambda, rewards, values, next_value, advantages,
          returns, lastgaelam, t

\* bounded-action policy
VARIABLES action_min, action_max, action_scale, action_bias, squashed_sample,
          squashed_action

\* state-dependent exploration: the flags, the exploration matrix (counted
\* by the draws made so far, 0 before any draw), the matrix the rollout
\* started with and the rollout steps at whose head the matrix changed
VARIABLES use_sde, sde_sample_freq, exploration_mat, rollout_mat,
          sampled_steps

\* PPO update
VARIABLES num_minibatches, target_kl, clip_coef, clip_vloss, logprobs, obs,
          next_obs, nxtobs, epoch, start, b_inds, minibatches,
          mb_inds, newlogprob, newvalue, ratio, clamped_ratio, approx_kl,
          v_clipped, v_loss_max, v_loss, optimizer_steps, exceeded_any,
          exceeded_last

\* run folder setup: the outcome of mkdir, the exit status of the copy
\* command (-1 before it has run), the exceptions raised (their
\* messages), whether the vector
\* environment has been created
VARIABLES mkdir_status, copy_status, raised, envs_created

\* WandBRewardRecoder fields, the metrics computed by the last step for the
\* environments that finished an episode and, for reference, the calls made
\* since construction
VARIABLES episode_returns, episode_lengths, episode_count,
          episode_returns_saved, episode_lengths_saved, logged, history

sharedVars == <<num_envs, pc, next_done, dones>>

setupVars == <<mkdir_status, copy_status, raised, envs_created>>

recorderVars == <<episode_returns, episode_lengths, episode_count,
                  episode_returns_saved, episode_lengths_saved, logged,
                  history>>

sdeVars == <<use_sde, sde_sample_freq, exploration_mat, rollout_mat,
             sampled_steps>>

rolloutVars == <<use_relative_action, update, step, subcycle_counter,
                 prev_action, start_action, action, smoothed_action, done,
                 reported, sdeVars>>

gaeVars == <<gae, gamma, gae_lambda, rewards, values, next_value, advantages,
             returns, lastgaelam, t>>

agentVars == <<action_min, action_max, action_scale, action_bias,
               squashed_sample, squashed_action>>

updateArgs == <<num_minibatches, target_kl, clip_coef, clip_vloss, logprobs,
                obs, next_obs>>

updateVars == <<updateArgs, nxtobs, epoch, start, b_inds, minibatches, mb_inds, newlogprob,
                newvalue, ratio, clamped_ratio, approx_kl, v_clipped,
                v_loss_max, v_loss, optimizer_steps, exceeded_any,
                exceeded_last>>

vars == <<sharedVars, rolloutVars, gaeVars, agentVars, updateVars, setupVars,
          recorderVars>>

(* ---------------------------- bounds ---------------------------------- *)

\* rollout horizon args.num_steps
NumSteps == 2

\* calls of reset and step made on the reward recorder
MaxRecorderCalls == 3

\* number of policy updates num_updates
NumUpdates == 2

\* passes over the batch per update, args.update_epochs
UpdateEpochs == 2

(* ------------------------ program constants --------------------------- *)

subcycle_max == 50

\* Python's None (no tensor bound yet): the empty tuple
None == << >>

(* ------------------------ exact arithmetic ---------------------------- *)

Abs(n) == IF n < 0 THEN -n ELSE n

RECURSIVE GCD(_, _)
GCD(a, b) == IF b = 0 THEN a ELSE GCD(b, a % b)

\* the rational n/d in lowest terms with a positive denominator (d # 0)
Rat(n, d) ==
    LET s == IF d < 0 THEN -1 ELSE 1
        g == GCD(Abs(n), Abs(d))
    IN  <<(s * n) \div g, (s * d) \div g>>

Zero == <<0, 1>>
One == <<1, 1>>

\* sums and products cancel common factors before they multiply
RAdd(x, y) ==
    LET g == GCD(x[2], y[2])
    IN  Rat(x[1] * (y[2] \div g) + y[1] * (x[2] \div g), (x[2] \div g) * y[2])
RNeg(x) == <<-x[1], x[2]>>
RSub(x, y) == RAdd(x, RNeg(y))
RMul(x, y) ==
    LET g1 == GCD(Abs(x[1]), y[2])
        g2 == GCD(Abs(y[1]), x[2])
    IN  IF x[1] = 0 \/ y[1] = 0
        THEN Zero
        ELSE Rat((x[1] \div g1) * (y[1] \div g2), (x[2] \div g2) * (y[2] \div g1))
\* x / y for y # 0
RDiv(x, y) == RMul(x, Rat(y[2], y[1]))
RLe(x, y) ==
    LET g == GCD(x[2], y[2])
    IN  x[1] * (y[2] \div g) <= y[1] * (x[2] \div g)
RLt(x, y) == x # y /\ RLe(x, y)

RMax(x, y) == IF RLe(x, y) THEN y ELSE x
RMin(x, y) == IF RLe(x, y) THEN x ELSE y

\* a slip in a clamp: only the upper limit is applied
ClipUpperOnly(x, lo, hi) == RMin(x, hi)

\* torch.clip(x, lo, hi) and torch.clamp(x, lo, hi)
Clip(x, lo, hi) == RMin(RMax(x, lo), hi)

(* ----------------------- rollout: helpers ----------------------------- *)

Envs(n) == 0 .. (n - 1)

\* numbers of parallel environments explored (args.num_envs)
EnvCounts == {1, 2}

\* target actions the policy may emit for one environment
ActionValues == {Rat(-1, 1), Rat(1, 1)}

\* the batched targets explored: odd-numbered environments receive the
\* mirrored action of the even-numbered ones
TargetVectors(n) ==
    {[i \in Envs(n) |-> IF i % 2 = 0 THEN a ELSE RSub(Zero, a)] : a \in ActionValues}

\* torch.Tensor(done): a boolean flag as a float
ToFloat(b) == IF b THEN 1 ELSE 0

\* a slip in lines 709-710: the fraction counts one substep too many
SmoothedActionLate(relative, prev, act, counter) ==
    IF relative
    THEN [i \in DOMAIN act |-> RAdd(prev[i], RMul(Rat(1, subcycle_max), act[i]))]
    ELSE [i \in DOMAIN act |->
            RAdd(prev[i], RMul(Rat(1, subcycle_max - counter + 1),
                               RSub(act[i], prev[i])))]

\* a slip in lines 709-710: a fixed fraction of the remaining gap, with a
\* jump onto the target at the last substep
SmoothedActionJump(relative, prev, act, counter) ==
    IF relative
    THEN [i \in DOMAIN act |-> RAdd(prev[i], RMul(Rat(1, subcycle_max), act[i]))]
    ELSE LET action_fraction == IF counter = subcycle_max - 1
                                THEN One ELSE Rat(1, subcycle_max)
         IN  [i \in DOMAIN act |->
                RAdd(prev[i], RMul(action_fraction, RSub(act[i], prev[i])))]

\* a slip in lines 703-707: the relative mode interpolates like the standard one
SmoothedActionNoRelative(relative, prev, act, counter) ==
    [i \in DOMAIN act |->
        RAdd(prev[i], RMul(Rat(1, subcycle_max - counter), RSub(act[i], prev[i])))]

\* lines 703-710: the action handed to envs.step at one substep
SmoothedAction(relative, prev, act, counter) ==
    IF relative
    THEN LET action_fraction == Rat(1, subcycle_max)
         IN  [i \in DOMAIN act |-> RAdd(prev[i], RMul(action_fraction, act[i]))]
    ELSE LET action_fraction == Rat(1, subcycle_max - counter)
         IN  [i \in DOMAIN act |->
                RAdd(prev[i], RMul(action_fraction, RSub(act[i], prev[i])))]

\* lines 694-695: an undefined previous action is re-initialised as 0 * action
PrevOrZero(prev, act) ==
    IF prev = None THEN [i \in DOMAIN act |-> RMul(Zero, act[i])] ELSE prev

\* a slip in lines 721-723: the loop is never left early
LoopContinuesNoBreak(d, counter) == counter < subcycle_max

\* a slip in line 721: the flag of any environment ends the loop
LoopContinuesAny(d, counter) ==
    (\A i \in DOMAIN d : ~d[i]) /\ counter < subcycle_max

\* lines 702 and 721-723: the substep loop goes on after a substep that
\* returned the flags d and raised the counter to counter
LoopContinues(d, counter) == ~d[0] /\ counter < subcycle_max

\* lines 721-725: the previous action kept after a substep
PrevAfterSubstep(d, smoothed) == IF d[0] THEN None ELSE smoothed

(* ----------------------- rollout: state machine ----------------------- *)

\* the run folder is set up and the environments exist
SetupDone ==
    /\ mkdir_status = "ok"
    /\ copy_status = 0
    /\ raised = None
    /\ envs_created = TRUE

\* the recorder's statistics are not tracked
RecorderIdle ==
    /\ episode_returns = None
    /\ episode_lengths = None
    /\ episode_count = 0
    /\ episode_returns_saved = None
    /\ episode_lengths_saved = None
    /\ logged = << >>
    /\ history = << >>

\* state-dependent exploration is switched off
SdeIdle ==
    /\ use_sde = FALSE
    /\ sde_sample_freq = -1
    /\ exploration_mat = 0
    /\ rollout_mat = 0
    /\ sampled_steps = {}

\* the PPO update has not run: its tensors are unbound
UpdateIdle ==
    /\ num_minibatches = 1
    /\ obs = None
    /\ next_obs = None
    /\ nxtobs = None
    /\ minibatches = << >>
    /\ target_kl = None
    /\ clip_coef = None
    /\ clip_vloss = FALSE
    /\ logprobs = None
    /\ epoch = 0
    /\ start = 0
    /\ b_inds = None
    /\ mb_inds = None
    /\ newlogprob = None
    /\ newvalue = None
    /\ ratio = None
    /\ clamped_ratio = None
    /\ approx_kl = None
    /\ v_clipped = None
    /\ v_loss_max = None
    /\ v_loss = None
    /\ optimizer_steps = 0
    /\ exceeded_any = -1
    /\ exceeded_last = -1

\* the policy's bounds and squashed values are not tracked
AgentIdle ==
    /\ action_min = None
    /\ action_max = None
    /\ action_scale = None
    /\ action_bias = None
    /\ squashed_sample = None
    /\ squashed_action = None

\* the advantage computation has not run: its tensors are unbound
GaeIdle ==
    /\ gae = FALSE
    /\ gamma = None
    /\ gae_lambda = None
    /\ rewards = None
    /\ values = None
    /\ next_value = None
    /\ advantages = None
    /\ returns = None
    /\ lastgaelam = None
    /\ t = NumSteps

Init ==
    /\ use_relative_action \in BOOLEAN
    /\ num_envs \in EnvCounts
    /\ pc = "step"
    /\ update = 1
    /\ step = 0
    /\ subcycle_counter = 0
    /\ prev_action = None
    /\ start_action = None
    /\ action = None
    /\ smoothed_action = None
    /\ done = None
    /\ next_done = [i \in Envs(num_envs) |-> 0]
    /\ dones = [row \in 0 .. (NumSteps - 1) |-> [i \in Envs(num_envs) |-> 0]]
    /\ reported = [i \in Envs(num_envs) |-> FALSE]
    /\ SdeIdle
    /\ GaeIdle
    /\ AgentIdle
    /\ UpdateIdle
    /\ SetupDone
    /\ RecorderIdle

\* lines 86-112: Agent.sample_weights draws a new exploration matrix
SampleWeights(mat) == mat + 1

\* a slip in line 680: the matrix is redrawn at every step
SampleAtStepAlways(sde, freq, k) == sde

\* line 680: whether the matrix is redrawn at the head of rollout step k
SampleAtStep(sde, freq, k) == sde /\ freq > 0 /\ k % freq = 0

\* lines 678-700: top of one macro-step, up to the substep loop
BeginStep ==
    /\ pc = "step"
    /\ \E a \in TargetVectors(num_envs) :
         /\ action' = a
         /\ prev_action' = PrevOrZero(prev_action, a)
    /\ dones' = [dones EXCEPT ![step] = next_done]
    /\ start_action' = prev_action'
    /\ subcycle_counter' = 0
    /\ exploration_mat' = IF SampleAtStep(use_sde, sde_sample_freq, step)
                          THEN SampleWeights(exploration_mat)
                          ELSE exploration_mat
    /\ sampled_steps' = IF exploration_mat' # exploration_mat
                        THEN sampled_steps \cup {step} ELSE sampled_steps
    /\ pc' = "substep"
    /\ UNCHANGED <<use_relative_action, num_envs, update, step,
                   smoothed_action, done, next_done, reported, use_sde,
                   sde_sample_freq, rollout_mat>>
    /\ UNCHANGED <<gaeVars, setupVars, recorderVars, agentVars, updateVars>>

\* lines 702-725: one iteration of the substep loop
SubStep ==
    /\ pc = "substep"
    /\ subcycle_counter < subcycle_max
    /\ smoothed_action' = SmoothedAction(use_relative_action, prev_action,
                                         action, subcycle_counter)
    /\ \E d \in [Envs(num_envs) -> BOOLEAN] :
         /\ done' = d
         /\ reported' = [i \in Envs(num_envs) |->
                            (subcycle_counter > 0 /\ reported[i]) \/ d[i]]
         /\ subcycle_counter' = subcycle_counter + 1
         /\ prev_action' = PrevAfterSubstep(d, smoothed_action')
         /\ pc' = IF LoopContinues(d, subcycle_counter')
                  THEN "substep" ELSE "endstep"
    /\ UNCHANGED <<use_relative_action, num_envs, update, step, start_action,
                   action, next_done, dones, sdeVars>>
    /\ UNCHANGED <<gaeVars, setupVars, recorderVars, agentVars, updateVars>>

\* lines 727-729 and the advance of the for loop at line 678
EndStep ==
    /\ pc = "endstep"
    /\ next_done' = [i \in Envs(num_envs) |-> ToFloat(done[i])]
    /\ IF step + 1 < NumSteps
       THEN /\ step' = step + 1
            /\ pc' = "step"
       ELSE /\ step' = step
            /\ pc' = "learn"
    /\ UNCHANGED <<use_relative_action, num_envs, update, subcycle_counter,
                   prev_action, start_action, action, smoothed_action, done,
                   dones, reported, sdeVars>>
    /\ UNCHANGED <<gaeVars, setupVars, recorderVars, agentVars, updateVars>>

\* lines 732-871, the advance of the for loop at line 666 and lines 674-676:
\* the policy update leaves the rollout state alone but redraws the
\* exploration matrix in its minibatches (line 785); the next rollout reuses
\* the buffers and starts with a fresh matrix
Learn ==
    /\ pc = "learn"
    /\ update < NumUpdates
    /\ update' = update + 1
    /\ step' = 0
    /\ exploration_mat' = IF use_sde
                          THEN SampleWeights(SampleWeights(exploration_mat))
                          ELSE exploration_mat
    /\ rollout_mat' = exploration_mat'
    /\ sampled_steps' = {}
    /\ pc' = "step"
    /\ UNCHANGED <<use_relative_action, num_envs, subcycle_counter,
                   prev_action, start_action, action, smoothed_action, done,
                   next_done, dones, reported, use_sde, sde_sample_freq>>
    /\ UNCHANGED <<gaeVars, setupVars, recorderVars, agentVars, updateVars>>

Next == BeginStep \/ SubStep \/ EndStep \/ Learn

Spec == Init /\ [][Next]_vars

(* ------------------------- rollout: claims ---------------------------- *)

NoneReported == \A i \in Envs(num_envs) : ~reported[i]

\* C1: in standard mode, when no done flag is raised during the 50 substeps
\* of a macro-step, the action applied at the last substep equals the
\* macro-step's target action, and prev_action then holds that target.
C1_StandardReachesTarget ==
    (~use_relative_action /\ subcycle_counter = subcycle_max)
        => /\ smoothed_action = action
           /\ NoneReported => prev_action = action

C1_Witness ==
    /\ ~use_relative_action
    /\ pc = "endstep"
    /\ subcycle_counter = subcycle_max
    /\ NoneReported
    /\ start_action[0] = Rat(-1, 1)
    /\ action[0] = One
    /\ smoothed_action = action
    /\ prev_action = action

\* C2: when the done flag of environment 0 is raised at substep k, the
\* substep loop is left right after that substep (the counter stays at k),
\* prev_action becomes None, and the next macro-step starts its
\* interpolation from a previous action of zero.
C2_DoneStopsInterpolation ==
    (done # None /\ done[0])
        => \/ /\ pc \in {"endstep", "step", "learn"}
              /\ prev_action = None
           \/ /\ pc = "substep"
              /\ subcycle_counter = 0
              /\ prev_action = [i \in Envs(num_envs) |-> Zero]
              /\ start_action = [i \in Envs(num_envs) |-> Zero]

C2_Witness ==
    /\ pc = "endstep"
    /\ done[0]
    /\ subcycle_counter = 10
    /\ start_action[0] = One
    /\ prev_action = None

\* C3: whenever environment i reports episode termination at any substep of
\* macro-step t, the done flag stored for index i in the following row
\* (dones[t+1], or next_done after the last row) is set.
C3_DoneFlagRecorded ==
    \A i \in Envs(num_envs) :
        reported[i] =>
            /\ pc \in {"step", "learn"} => next_done[i] = 1
            /\ (pc = "substep" /\ subcycle_counter = 0) => dones[step][i] = 1

\* C9: in standard mode the action applied at substep k is
\* p + (k/50)*(a - p) for the previous action p at the start of the
\* macro-step and the target a; for p = 0 and a = 1 it is k/50.
C9_LinearRamp ==
    (~use_relative_action /\ subcycle_counter >= 1)
        => \A i \in Envs(num_envs) :
              /\ smoothed_action[i] =
                    RAdd(start_action[i],
                         RMul(Rat(subcycle_counter, subcycle_max),
                              RSub(action[i], start_action[i])))
              /\ (start_action[i] = Zero /\ action[i] = One)
                    => smoothed_action[i] = Rat(subcycle_counter, subcycle_max)

C9_Witness ==
    /\ ~use_relative_action
    /\ subcycle_counter = 25
    /\ start_action[0] = Zero
    /\ action[0] = One
    /\ smoothed_action[0] = Rat(1, 2)

\* C10: in relative mode substep k applies the previous action at the start
\* of the macro-step plus k/50 of the target; after 50 substeps without
\* termination the applied action is that previous action plus the target,
\* and it is the previous action of the next macro-step.
C10_AdditiveRamp ==
    use_relative_action
        => /\ subcycle_counter >= 1
                => \A i \in Envs(num_envs) :
                      smoothed_action[i] =
                          RAdd(start_action[i],
                               RMul(Rat(subcycle_counter, subcycle_max), action[i]))
           /\ (subcycle_counter = subcycle_max /\ ~done[0])
                => /\ \A i \in Envs(num_envs) :
                        smoothed_action[i] = RAdd(start_action[i], action[i])
                   /\ prev_action = smoothed_action
           /\ (pc = "substep" /\ subcycle_counter = 0 /\ done # None /\ ~done[0])
                => start_action = smoothed_action

C10_Witness ==
    /\ use_relative_action
    /\ pc = "substep"
    /\ subcycle_counter = 0
    /\ done # None
    /\ ~done[0]
    /\ start_action = smoothed_action
    /\ start_action[0] = Rat(2, 1)

\* C18: with more than one environment the early exit of the substep loop
\* and the reset of prev_action follow the done flag of environment 0 only:
\* a flag of another environment alone neither ends the substeps nor resets
\* prev_action, and a flag of environment 0 ends them and resets the
\* previous action of all environments.
C18_EnvironmentZeroDecides ==
    (num_envs > 1 /\ pc \in {"substep", "endstep"} /\ subcycle_counter > 0)
        => IF done[0]
           THEN pc = "endstep" /\ prev_action = None
           ELSE /\ prev_action = smoothed_action
                /\ pc = "endstep" <=> subcycle_counter = subcycle_max

C18_Witness ==
    /\ num_envs = 2
    /\ pc = "substep"
    /\ subcycle_counter = 1
    /\ done[1]
    /\ ~done[0]
    /\ prev_action = smoothed_action

(* --------------------------- run folder setup ------------------------- *)

\* exit statuses os.system can return for the copy command: success and the
\* failure of cp (exit code 1 in the high byte)
CopyStatuses == {0, 256}

\* lines 476-600: before the run folder is created; no environment exists
InitSetup ==
    /\ use_relative_action = FALSE
    /\ num_envs = 1
    /\ pc = "mkdir"
    /\ update = 1
    /\ step = 0
    /\ subcycle_counter = 0
    /\ prev_action = None
    /\ start_action = None
    /\ action = None
    /\ smoothed_action = None
    /\ done = None
    /\ next_done = [i \in Envs(num_envs) |-> 0]
    /\ dones = [row \in 0 .. (NumSteps - 1) |-> [i \in Envs(num_envs) |-> 0]]
    /\ reported = [i \in Envs(num_envs) |-> FALSE]
    /\ mkdir_status = "pending"
    /\ copy_status = -1
    /\ raised = None
    /\ envs_created = FALSE
    /\ SdeIdle
    /\ GaeIdle
    /\ AgentIdle
    /\ UpdateIdle
    /\ RecorderIdle

\* lines 602-605: run_folder.mkdir, its exception re-raised as Exception
MakeRunFolder ==
    /\ pc = "mkdir"
    /\ \E ok \in BOOLEAN :
         IF ok
         THEN /\ mkdir_status' = "ok"
              /\ raised' = raised
              /\ pc' = "copy"
         ELSE /\ mkdir_status' = "error"
              /\ raised' = <<"failed to create run folder">>
              /\ pc' = "terminated"
    /\ UNCHANGED <<num_envs, next_done, dones, rolloutVars, gaeVars, agentVars,
                   updateVars, recorderVars, copy_status, envs_created>>

\* lines 607-611: os.system returns the exit status of cp and raises nothing
\* when cp fails, so the except clause is not entered
CopyBaseCase ==
    /\ pc = "copy"
    /\ copy_status' \in CopyStatuses
    /\ pc' = "envs"
    /\ UNCHANGED <<num_envs, next_done, dones, rolloutVars, gaeVars, agentVars,
                   updateVars, recorderVars, mkdir_status, raised,
                   envs_created>>

\* lines 613-665: the vector environment, the agent and the buffers are
\* created; training starts
CreateEnvs ==
    /\ pc = "envs"
    /\ envs_created' = TRUE
    /\ pc' = "step"
    /\ UNCHANGED <<num_envs, next_done, dones, rolloutVars, gaeVars, agentVars,
                   updateVars, recorderVars, mkdir_status, copy_status,
                   raised>>

NextSetup == MakeRunFolder \/ CopyBaseCase \/ CreateEnvs \/ Next

SpecSetup == InitSetup /\ [][NextSetup]_vars

\* C17: when creating the run folder or copying the base case fails, the run
\* ends with an exception carrying the message, before any environment is
\* created and before training starts.
C17_SetupFailureTerminates ==
    (mkdir_status = "error" \/ copy_status > 0)
        => /\ pc = "terminated"
           /\ raised # None
           /\ ~envs_created

(* ------------------- state-dependent exploration ---------------------- *)

\* sample values of args.sde_sample_freq
SdeSampleFreqs == {-1, 1, 2}

\* lines 643-676: one environment in standard mode; with gSDE the matrix is
\* drawn in Agent.__init__ (line 82) and at the start of the rollout
InitSde ==
    /\ use_relative_action = FALSE
    /\ num_envs = 1
    /\ pc = "step"
    /\ update = 1
    /\ step = 0
    /\ subcycle_counter = 0
    /\ prev_action = None
    /\ start_action = None
    /\ action = None
    /\ smoothed_action = None
    /\ done = None
    /\ next_done = [i \in Envs(num_envs) |-> 0]
    /\ dones = [row \in 0 .. (NumSteps - 1) |-> [i \in Envs(num_envs) |-> 0]]
    /\ reported = [i \in Envs(num_envs) |-> FALSE]
    /\ use_sde \in BOOLEAN
    /\ sde_sample_freq \in SdeSampleFreqs
    /\ exploration_mat = IF use_sde THEN SampleWeights(SampleWeights(0)) ELSE 0
    /\ rollout_mat = exploration_mat
    /\ sampled_steps = {}
    /\ GaeIdle
    /\ AgentIdle
    /\ UpdateIdle
    /\ SetupDone
    /\ RecorderIdle

SpecSde == InitSde /\ [][Next]_vars

\* rollout step k of the current rollout has passed its head
StepBegun(k) == k < step \/ (k = step /\ pc # "step")

\* C16: with gSDE and sde_sample_freq = n > 0 the matrix is redrawn exactly
\* at the rollout steps with step % n = 0; with sde_sample_freq = -1 it is
\* drawn at the start of each rollout and stays unchanged through all its
\* steps; without gSDE it is never drawn.
C16_SdeCadence ==
    /\ (use_sde /\ sde_sample_freq > 0)
          => \A k \in 0 .. (NumSteps - 1) :
                StepBegun(k) => (k \in sampled_steps <=> k % sde_sample_freq = 0)
    /\ (use_sde /\ sde_sample_freq = -1)
          => /\ sampled_steps = {}
             /\ exploration_mat = rollout_mat
             /\ rollout_mat >= 2 * update
    /\ ~use_sde => (exploration_mat = 0 /\ sampled_steps = {})

C16_Witness ==
    /\ use_sde
    /\ sde_sample_freq = 2
    /\ pc = "learn"
    /\ update = 2
    /\ sampled_steps = {0}
    /\ exploration_mat = rollout_mat + 1

(* -------------------- advantage computation: helpers ------------------ *)

\* sample rewards, critic values, discount factors and GAE lambdas
RewardValues == {One, Rat(2, 1)}
CriticValues == {Zero, Rat(3, 1)}
GammaValues == {Rat(1, 2), Rat(9, 10)}
LambdaValues == {Rat(1, 2), One}

Rows == 0 .. (NumSteps - 1)

\* lines 739-744 and 751-756: the non-terminal mask of the step after row k
NextNonTerminal(k, i) ==
    IF k = NumSteps - 1
    THEN RSub(One, Rat(next_done[i], 1))
    ELSE RSub(One, Rat(dones[k + 1][i], 1))

\* a slip in line 741: the final step bootstraps from its own buffered value
NextValuesFromBuffer(k, i) ==
    IF k = NumSteps - 1 THEN values[k][i] ELSE values[k + 1][i]

\* lines 741 and 744: the value estimate of the step after row k
NextValues(k, i) ==
    IF k = NumSteps - 1 THEN next_value[i] ELSE values[k + 1][i]

\* a slip in line 745: the next value is not masked at episode boundaries
DeltaNoMask(k, i) ==
    RSub(RAdd(rewards[k][i], RMul(gamma, NextValues(k, i))), values[k][i])

\* line 745: the TD residual of row k
Delta(k, i) ==
    RSub(RAdd(rewards[k][i],
              RMul(RMul(gamma, NextValues(k, i)), NextNonTerminal(k, i))),
         values[k][i])

\* a slip in line 746: the accumulator is carried across episode boundaries
GaeLamNoMask(k, i) ==
    RAdd(Delta(k, i), RMul(RMul(gamma, gae_lambda), lastgaelam[i]))

\* line 746: the advantage of row k from the accumulator of row k + 1
GaeLam(k, i) ==
    RAdd(Delta(k, i),
         RMul(RMul(RMul(gamma, gae_lambda), NextNonTerminal(k, i)), lastgaelam[i]))

\* lines 753 and 756: the return of the step after row k
NextReturn(k, i) ==
    IF k = NumSteps - 1 THEN next_value[i] ELSE returns[k + 1][i]

\* line 757: the bootstrapped discounted return of row k
DiscountedReturn(k, i) ==
    RAdd(rewards[k][i], RMul(RMul(gamma, NextNonTerminal(k, i)), NextReturn(k, i)))

ZeroBuffer == [k \in Rows |-> [i \in Envs(num_envs) |-> Zero]]

(* ----------------- advantage computation: state machine --------------- *)

\* the rollout state is not touched by the advantage computation
RolloutIdle ==
    /\ use_relative_action = FALSE
    /\ update = 1
    /\ step = NumSteps - 1
    /\ subcycle_counter = subcycle_max
    /\ prev_action = None
    /\ start_action = None
    /\ action = None
    /\ smoothed_action = None
    /\ done = None
    /\ reported = None
    /\ SdeIdle

\* line 732: a finished rollout; lines 734-737 and 749
InitGAE ==
    /\ num_envs = 1
    /\ RolloutIdle
    /\ AgentIdle
    /\ UpdateIdle
    /\ gae \in BOOLEAN
    /\ gamma \in GammaValues
    /\ gae_lambda \in LambdaValues
    /\ rewards \in [Rows -> [Envs(num_envs) -> RewardValues]]
    /\ values \in [Rows -> [Envs(num_envs) -> CriticValues]]
    /\ dones \in [Rows -> [Envs(num_envs) -> {0, 1}]]
    /\ next_done \in [Envs(num_envs) -> {0, 1}]
    /\ next_value \in [Envs(num_envs) -> CriticValues]
    /\ advantages = ZeroBuffer
    /\ returns = ZeroBuffer
    /\ lastgaelam = [i \in Envs(num_envs) |-> Zero]
    /\ t = NumSteps - 1
    /\ pc = IF gae THEN "gae" ELSE "returns"
    /\ SetupDone
    /\ RecorderIdle

\* lines 738-746: one iteration of the backward GAE recursion
GaeStep ==
    /\ pc = "gae"
    /\ t >= 0
    /\ lastgaelam' = [i \in Envs(num_envs) |-> GaeLam(t, i)]
    /\ advantages' = [advantages EXCEPT ![t] = lastgaelam']
    /\ t' = t - 1
    /\ UNCHANGED <<sharedVars, rolloutVars, setupVars, recorderVars, agentVars, updateVars, gae, gamma, gae_lambda, rewards,
                   values, next_value, returns>>

\* line 747: returns = advantages + values
GaeReturns ==
    /\ pc = "gae"
    /\ t < 0
    /\ returns' = [k \in Rows |-> [i \in Envs(num_envs) |->
                      RAdd(advantages[k][i], values[k][i])]]
    /\ pc' = "flatten"
    /\ UNCHANGED <<num_envs, next_done, dones, rolloutVars, setupVars, recorderVars, agentVars, updateVars,
                   gae, gamma,
                   gae_lambda, rewards, values, next_value, advantages,
                   lastgaelam, t>>

\* lines 750-757: one iteration of the backward discounted-return recursion
ReturnStep ==
    /\ pc = "returns"
    /\ t >= 0
    /\ returns' = [returns EXCEPT ![t] =
                      [i \in Envs(num_envs) |-> DiscountedReturn(t, i)]]
    /\ t' = t - 1
    /\ UNCHANGED <<sharedVars, rolloutVars, setupVars, recorderVars, agentVars, updateVars, gae, gamma, gae_lambda, rewards,
                   values, next_value, advantages, lastgaelam>>

\* line 758: advantages = returns - values
ReturnAdvantages ==
    /\ pc = "returns"
    /\ t < 0
    /\ advantages' = [k \in Rows |-> [i \in Envs(num_envs) |->
                         RSub(returns[k][i], values[k][i])]]
    /\ pc' = "flatten"
    /\ UNCHANGED <<num_envs, next_done, dones, rolloutVars, setupVars, recorderVars, agentVars, updateVars,
                   gae, gamma,
                   gae_lambda, rewards, values, next_value, returns,
                   lastgaelam, t>>

NextGAE == GaeStep \/ GaeReturns \/ ReturnStep \/ ReturnAdvantages

SpecGAE == InitGAE /\ [][NextGAE]_vars

(* -------------------- advantage computation: claims ------------------- *)

RECURSIVE Pow(_, _)
Pow(x, n) == IF n = 0 THEN One ELSE RMul(x, Pow(x, n - 1))

RECURSIVE RSum(_, _, _)
\* f[lo] + ... + f[hi]
RSum(f, lo, hi) == IF lo > hi THEN Zero ELSE RAdd(f[lo], RSum(f, lo + 1, hi))

\* the last row of the trajectory that row k of environment i belongs to
TrajectoryEnd(k, i) ==
    CHOOSE e \in k .. (NumSteps - 1) :
        /\ e = NumSteps - 1 \/ dones[e + 1][i] = 1
        /\ \A m \in k .. (e - 1) : dones[m + 1][i] = 0

\* the discounted Monte-Carlo return of row k of environment i
MonteCarloReturn(k, i) ==
    RSum([m \in k .. TrajectoryEnd(k, i) |-> RMul(Pow(gamma, m - k), rewards[m][i])],
         k, TrajectoryEnd(k, i))

\* the value after the last step contributes nothing
NoBootstrap == \A i \in Envs(num_envs) : next_value[i] = Zero \/ next_done[i] = 1

\* C4: with gae_lambda = 1 and no bootstrapping, advantages[t] + values[t]
\* is the discounted Monte-Carlo return of step t up to the end of its
\* trajectory, for all rewards, value estimates and done flags.
C4_GaeLambdaOneIsMonteCarlo ==
    (pc = "flatten" /\ gae /\ gae_lambda = One /\ NoBootstrap)
        => \A k \in Rows : \A i \in Envs(num_envs) :
              /\ returns[k][i] = RAdd(advantages[k][i], values[k][i])
              /\ returns[k][i] = MonteCarloReturn(k, i)

C4_Witness ==
    /\ pc = "flatten"
    /\ gae
    /\ gae_lambda = One
    /\ NoBootstrap
    /\ gamma = Rat(1, 2)
    /\ dones[1][0] = 0
    /\ next_done[0] = 1
    /\ next_value[0] = Rat(3, 1)
    /\ values[0][0] = Rat(3, 1)
    /\ rewards[0][0] = One
    /\ rewards[1][0] = Rat(2, 1)
    /\ TrajectoryEnd(0, 0) >= 1
    /\ returns[0][0] = MonteCarloReturn(0, 0)
    /\ returns[0][0] # rewards[0][0]

\* whether the step after row k of environment i starts a new trajectory
SuccessorDone(k, i) ==
    IF k = NumSteps - 1 THEN next_done[i] = 1 ELSE dones[k + 1][i] = 1

\* the advantage of the row after row k, nothing after the last row
LaterAdvantage(k, i) ==
    IF k = NumSteps - 1 THEN Zero ELSE advantages[k + 1][i]

\* C11: in the GAE recursion every computed row whose successor is flagged
\* done has advantages[t] = rewards[t] - values[t]; every other computed row
\* has advantages[t] = delta_t + gamma * gae_lambda * advantages[t+1], with
\* delta_t = rewards[t] + gamma * (next value) - values[t].
C11_GaeResetAtBoundary ==
    (gae /\ pc \in {"gae", "flatten"})
        => \A k \in Rows : \A i \in Envs(num_envs) :
              k > t =>
                 advantages[k][i] =
                    IF SuccessorDone(k, i)
                    THEN RSub(rewards[k][i], values[k][i])
                    ELSE RAdd(RSub(RAdd(rewards[k][i],
                                        RMul(gamma, IF k = NumSteps - 1
                                                    THEN next_value[i]
                                                    ELSE values[k + 1][i])),
                                   values[k][i]),
                              RMul(RMul(gamma, gae_lambda), LaterAdvantage(k, i)))

C11_Witness ==
    /\ gae
    /\ pc = "flatten"
    /\ dones[1][0] = 1
    /\ values[1][0] = Rat(3, 1)
    /\ advantages[1][0] # Zero
    /\ advantages[0][0] = RSub(rewards[0][0], values[0][0])

\* C12: in both modes the final step bootstraps from the critic's value of
\* the observation delivered after the last macro-step, masked by next_done,
\* not from the buffer; every earlier step uses the buffered entry of row
\* t + 1 masked by dones[t+1].
C12_FinalStepBootstrap ==
    pc = "flatten"
        => \A i \in Envs(num_envs) :
              /\ returns[NumSteps - 1][i] =
                    RAdd(rewards[NumSteps - 1][i],
                         RMul(RMul(gamma, next_value[i]),
                              RSub(One, Rat(next_done[i], 1))))
              /\ \A k \in 0 .. (NumSteps - 2) :
                    LET mask == RSub(One, Rat(dones[k + 1][i], 1))
                    IN  IF gae
                        THEN advantages[k][i] =
                                RAdd(RSub(RAdd(rewards[k][i],
                                               RMul(RMul(gamma, values[k + 1][i]), mask)),
                                          values[k][i]),
                                     RMul(RMul(RMul(gamma, gae_lambda), mask),
                                          advantages[k + 1][i]))
                        ELSE returns[k][i] =
                                RAdd(rewards[k][i],
                                     RMul(RMul(gamma, mask), returns[k + 1][i]))

C12_Witness ==
    /\ pc = "flatten"
    /\ ~gae
    /\ next_done[0] = 0
    /\ next_value[0] = Rat(3, 1)
    /\ values[NumSteps - 1][0] = Zero
    /\ dones[NumSteps - 1][0] = 0
    /\ returns[NumSteps - 1][0] # rewards[NumSteps - 1][0]
    /\ advantages[NumSteps - 1][0] = returns[NumSteps - 1][0]

(* ---------------------- bounded-action policy ------------------------- *)

\* line 26
EPSILON == Rat(1, 1000000)

\* limits (low, high) of the action space, low < high
BoundValues == {Rat(-3, 1), Rat(-1, 1), Zero, One, Rat(3, 1)}
ActionBounds == {b \in BoundValues \X BoundValues : RLt(b[1], b[2])}

\* values of tanh(sample); float tanh saturates at -1 and 1
SquashValues ==
    {Rat(-1, 1), RSub(EPSILON, One), Rat(-1, 2), Zero, Rat(1, 4), Rat(1, 2),
     RSub(One, EPSILON), One}


\* line 168: the squashed sample rescaled into the action range
Rescale(squashed) == RAdd(RMul(squashed, action_scale), action_bias)

\* lines 171-173: the action re-normalised into [-1, 1] and clipped
Unsquash(act) ==
    LET normalised ==
            RSub(RDiv(RMul(Rat(2, 1), RSub(act, action_min)),
                      RSub(action_max, action_min)),
                 One)
        clip == RSub(One, EPSILON)
    IN  Clip(normalised, RNeg(clip), clip)

\* the policy-update state is not touched by the policy's forward pass
AgentRolloutIdle ==
    /\ update = 1
    /\ step = 0
    /\ subcycle_counter = 0
    /\ prev_action = None
    /\ start_action = None
    /\ smoothed_action = None
    /\ done = None
    /\ reported = None
    /\ SdeIdle
    /\ next_done = None
    /\ dones = None

\* lines 37-53: Agent.__init__ for an action space with limits (low, high)
InitAgent ==
    /\ num_envs = 1
    /\ use_relative_action \in BOOLEAN
    /\ \E b \in ActionBounds :
         /\ action_scale = RDiv(RSub(b[2], b[1]), Rat(2, 1))
         /\ action_bias = RDiv(RAdd(b[2], b[1]), Rat(2, 1))
         /\ action_min = IF use_relative_action THEN RDiv(b[1], Rat(3, 1)) ELSE b[1]
         /\ action_max = IF use_relative_action THEN RDiv(b[2], Rat(3, 1)) ELSE b[2]
    /\ squashed_sample = None
    /\ squashed_action = None
    /\ action = None
    /\ pc = "init"
    /\ AgentRolloutIdle
    /\ GaeIdle
    /\ UpdateIdle
    /\ SetupDone
    /\ RecorderIdle

\* lines 118-187 with action = None: an action is sampled (line 689)
SampleAction ==
    /\ pc \in {"init", "sampled", "evaluated"}
    /\ \E sq \in SquashValues :
         /\ squashed_sample' = sq
         /\ action' = [i \in Envs(num_envs) |-> Rescale(sq)]
    /\ squashed_action' = Unsquash(action'[0])
    /\ pc' = "sampled"
    /\ UNCHANGED <<num_envs, next_done, dones, use_relative_action, update,
                   step, subcycle_counter, prev_action, start_action,
                   smoothed_action, done, reported, sdeVars, gaeVars, setupVars, recorderVars,
                   updateVars, action_min, action_max, action_scale,
                   action_bias>>

\* lines 118-187 with the stored action given (line 787)
EvaluateAction ==
    /\ pc = "sampled"
    /\ squashed_action' = Unsquash(action[0])
    /\ pc' = "evaluated"
    /\ UNCHANGED <<num_envs, next_done, dones, rolloutVars, gaeVars, setupVars, recorderVars,
                   updateVars, action_min, action_max, action_scale,
                   action_bias, squashed_sample>>

NextAgent == SampleAction \/ EvaluateAction

SpecAgent == InitAgent /\ [][NextAgent]_vars

(* -------------------- bounded-action policy: claims ------------------- *)

\* C5: for all limits low < high, in the standard and in the relative
\* mode, a squashed value s in [-1+eps, 1-eps] that is rescaled into the
\* action range and re-normalised by the inverse map of the
\* log-probability computation comes back as s.
C5_SquashRoundTrip ==
    (pc \in {"sampled", "evaluated"}
        /\ RLe(RSub(EPSILON, One), squashed_sample)
        /\ RLe(squashed_sample, RSub(One, EPSILON)))
        => squashed_action = squashed_sample

\* C14: every action sampled by the policy lies within the limits the policy
\* holds for the action space: [low, high] in the standard mode and
\* [low/3, high/3] in the relative mode.
C14_SampledActionInBounds ==
    pc = "sampled"
        => \A i \in Envs(num_envs) :
              /\ RLe(action_min, action[i])
              /\ RLe(action[i], action_max)

(* --------------------------- PPO update: helpers ---------------------- *)

\* numbers of minibatches explored (args.num_minibatches)
MinibatchCounts == {1, 2}

\* sample thresholds (None: no early stop) and clip coefficients
TargetKlValues == {None, Rat(1, 4)}
ClipCoefValues == {Rat(1, 5)}

\* sample rollout records: the stored log-probability (in units of ln 2) and
\* the stored value estimate of one batch element
StoredSamples == {<<-1, Zero>>, <<0, One>>}

\* sample outputs of the updated networks for one batch element: the new
\* log-probability (in units of ln 2) and the new value estimate
NetworkOutputs == {<<-1, One>>, <<1, Rat(2, 1)>>}

\* sample states of the updated networks: the outputs they give for each
\* rollout record
Networks == [StoredSamples -> NetworkOutputs]

\* sample return targets
ReturnValues == {One}

\* rollout length args.num_steps explored for the update
UpdateSteps == NumSteps + 1

UpdateRows == 0 .. (UpdateSteps - 1)

\* line 455
BatchSize == num_envs * UpdateSteps

\* line 456
MinibatchSize == BatchSize \div num_minibatches

\* lines 762-766: element j of a (num_steps, num_envs) buffer reshaped to (-1)
Flat(buffer, j) == buffer[j \div num_envs][j % num_envs]

\* sample outcomes of np.random.shuffle (line 778): the rotations of the
\* batch indices and their reversals (every permutation when n <= 3)
Shuffles(n) ==
    {[j \in 0 .. (n - 1) |-> (j + r) % n] : r \in 0 .. (n - 1)}
        \cup {[j \in 0 .. (n - 1) |-> (r + n - j) % n] : r \in 0 .. (n - 1)}

\* a slip in line 781: the slice starts at the head of the index array
SliceFromHead(inds, from, to) ==
    LET hi == IF to < BatchSize THEN to ELSE BatchSize
    IN  [k \in 0 .. (hi - from - 1) |-> inds[k]]

\* line 781: b_inds[start:end]
Slice(inds, from, to) ==
    LET hi == IF to < BatchSize THEN to ELSE BatchSize
    IN  [k \in 0 .. (hi - from - 1) |-> inds[from + k]]

RECURSIVE TwoTo(_)
TwoTo(n) == IF n = 0 THEN 1 ELSE 2 * TwoTo(n - 1)

\* line 792: exp of a log-ratio counted in units of ln 2
Exp(x) == IF x >= 0 THEN Rat(TwoTo(x), 1) ELSE Rat(1, TwoTo(-x))

\* ln 2 to three decimals
Ln2 == Rat(693, 1000)

\* torch mean of a tensor indexed 0 .. n-1
Mean(f) ==
    LET n == Cardinality(DOMAIN f)
        sum[k \in 0 .. n] == IF k = 0 THEN Zero ELSE RAdd(sum[k - 1], f[k - 1])
    IN  RDiv(sum[n], Rat(n, 1))

Square(x) == RMul(x, x)

\* line 797: ((ratio - 1) - logratio).mean()
ApproxKl(logratio) ==
    Mean([k \in DOMAIN logratio |->
            RSub(RSub(Exp(logratio[k]), One), RMul(Rat(logratio[k], 1), Ln2))])

\* lines 813-817: the new value clipped around the old estimate
VClipped(new, old, coef) == RAdd(old, Clip(RSub(new, old), RNeg(coef), coef))

\* a slip in line 819: the smaller branch is taken
VLossMin(unclipped, clipped) == RMin(unclipped, clipped)

\* line 819: torch.max(v_loss_unclipped, v_loss_clipped)
VLossMax(unclipped, clipped) == RMax(unclipped, clipped)

\* a slip in lines 844-845: the threshold is never consulted
KlStopNever(target, kl) == FALSE

\* lines 844-845: the update stops after this epoch
KlStop(target, kl) == target # None /\ RLt(target, kl)

(* ------------------------ PPO update: state machine ------------------- *)

\* lines 760-776: the flattened batch of a finished rollout
InitUpdate ==
    /\ num_envs = 1
    /\ RolloutIdle
    /\ AgentIdle
    /\ next_done = [i \in Envs(num_envs) |-> 0]
    /\ dones = [k \in UpdateRows |-> [i \in Envs(num_envs) |-> 0]]
    /\ gae = TRUE
    /\ gamma = None
    /\ gae_lambda = None
    /\ rewards = None
    /\ next_value = None
    /\ advantages = None
    /\ lastgaelam = None
    /\ t = -1
    /\ \E stored \in [UpdateRows -> [Envs(num_envs) -> StoredSamples]] :
          /\ logprobs = [k \in UpdateRows |-> [i \in Envs(num_envs) |-> stored[k][i][1]]]
          /\ values = [k \in UpdateRows |-> [i \in Envs(num_envs) |-> stored[k][i][2]]]
    /\ returns \in [UpdateRows -> [Envs(num_envs) -> ReturnValues]]
    /\ num_minibatches \in MinibatchCounts
    /\ target_kl \in TargetKlValues
    /\ clip_coef \in ClipCoefValues
    /\ clip_vloss \in BOOLEAN
    /\ epoch = -1
    /\ start = 0
    /\ obs = [k \in UpdateRows |-> [i \in Envs(num_envs) |-> k]]
    /\ next_obs = [i \in Envs(num_envs) |-> UpdateSteps]
    /\ nxtobs = None
    /\ b_inds = None
    /\ minibatches = << >>
    /\ mb_inds = None
    /\ newlogprob = None
    /\ newvalue = None
    /\ ratio = None
    /\ clamped_ratio = None
    /\ approx_kl = None
    /\ v_clipped = None
    /\ v_loss_max = None
    /\ v_loss = None
    /\ optimizer_steps = 0
    /\ exceeded_any = -1
    /\ exceeded_last = -1
    /\ pc = "flatten"
    /\ SetupDone
    /\ RecorderIdle

\* lines 769-770: the observation paired with each row by the smoothness
\* regularizer
NxtObs ==
    [k \in UpdateRows |-> IF k < UpdateSteps - 1 THEN obs[k + 1] ELSE obs[UpdateSteps - 1]]

\* lines 760-776: the batch is flattened and the index array created
Flatten ==
    /\ pc = "flatten"
    /\ nxtobs' = NxtObs
    /\ b_inds' = [j \in 0 .. (BatchSize - 1) |-> j]
    /\ pc' = "epoch"
    /\ UNCHANGED <<num_envs, next_done, dones, rolloutVars, gaeVars, setupVars, recorderVars, agentVars,
                   updateArgs, epoch, start, minibatches, mb_inds, newlogprob,
                   newvalue, ratio, clamped_ratio, approx_kl, v_clipped,
                   v_loss_max, v_loss, optimizer_steps, exceeded_any,
                   exceeded_last>>

\* lines 777-778: the head of the epoch loop and the shuffle
BeginEpoch ==
    /\ pc = "epoch"
    /\ epoch + 1 < UpdateEpochs
    /\ epoch' = epoch + 1
    /\ b_inds' \in Shuffles(BatchSize)
    /\ start' = 0
    /\ minibatches' = << >>
    /\ pc' = "minibatch"
    /\ UNCHANGED <<num_envs, next_done, dones, rolloutVars, gaeVars, setupVars, recorderVars, agentVars,
                   updateArgs, nxtobs, mb_inds, newlogprob, newvalue, ratio,
                   clamped_ratio, approx_kl, v_clipped, v_loss_max, v_loss,
                   optimizer_steps, exceeded_any, exceeded_last>>

\* lines 779-842: one minibatch, up to optimizer.step()
Minibatch ==
    /\ pc = "minibatch"
    /\ start < BatchSize
    /\ LET end == start + MinibatchSize
           inds == Slice(b_inds, start, end)
           pos == DOMAIN inds
       IN  /\ mb_inds' = inds
           /\ minibatches' = Append(minibatches, inds)
           /\ \E net \in Networks :
                  LET out == [k \in pos |->
                                 net[<<Flat(logprobs, inds[k]), Flat(values, inds[k])>>]]
                  IN  /\ newlogprob' = [k \in pos |-> out[k][1]]
                      /\ newvalue' = [k \in pos |-> out[k][2]]
           /\ LET logratio == [k \in pos |-> newlogprob'[k] - Flat(logprobs, inds[k])]
              IN  /\ ratio' = [k \in pos |-> Exp(logratio[k])]
                  /\ approx_kl' = ApproxKl(logratio)
           /\ clamped_ratio' = [k \in pos |->
                  Clip(ratio'[k], RSub(One, clip_coef), RAdd(One, clip_coef))]
           /\ IF clip_vloss
              THEN /\ v_clipped' = [k \in pos |->
                          VClipped(newvalue'[k], Flat(values, inds[k]), clip_coef)]
                   /\ v_loss_max' = [k \in pos |->
                          VLossMax(Square(RSub(newvalue'[k], Flat(returns, inds[k]))),
                                   Square(RSub(v_clipped'[k], Flat(returns, inds[k]))))]
                   /\ v_loss' = RMul(Rat(1, 2), Mean(v_loss_max'))
              ELSE /\ v_loss' = RMul(Rat(1, 2), Mean([k \in pos |->
                          Square(RSub(newvalue'[k], Flat(returns, inds[k])))]))
                   /\ UNCHANGED <<v_clipped, v_loss_max>>
           /\ optimizer_steps' = optimizer_steps + 1
           /\ exceeded_any' =
                  IF exceeded_any = -1 /\ target_kl # None /\ RLt(target_kl, approx_kl')
                  THEN epoch ELSE exceeded_any
           /\ exceeded_last' =
                  IF exceeded_last = -1 /\ target_kl # None /\ end >= BatchSize
                     /\ RLt(target_kl, approx_kl')
                  THEN epoch ELSE exceeded_last
           /\ start' = end
           /\ pc' = IF end < BatchSize THEN "minibatch" ELSE "klcheck"
    /\ UNCHANGED <<num_envs, next_done, dones, rolloutVars, gaeVars, setupVars, recorderVars, agentVars,
                   updateArgs, nxtobs, epoch, b_inds>>

\* lines 844-847 and the exhaustion of the epoch loop
EndEpoch ==
    /\ pc = "klcheck"
    /\ pc' = IF KlStop(target_kl, approx_kl) THEN "done"
             ELSE IF epoch + 1 < UpdateEpochs THEN "epoch" ELSE "done"
    /\ UNCHANGED <<num_envs, next_done, dones, rolloutVars, gaeVars, setupVars, recorderVars, agentVars,
                   updateVars>>

NextUpdate == Flatten \/ BeginEpoch \/ Minibatch \/ EndEpoch

SpecUpdate == InitUpdate /\ [][NextUpdate]_vars

(* --------------------------- PPO update: claims ----------------------- *)

\* minibatches of one epoch: the starts of range(0, batch_size, minibatch_size)
MinibatchesPerEpoch == (BatchSize + MinibatchSize - 1) \div MinibatchSize

\* C6 as stated: once the approximate KL of some minibatch of an update
\* exceeds the configured threshold, no gradient step is made in a later
\* epoch of that update; without a threshold all update_epochs epochs run.
C6_AnyMinibatchStops ==
    /\ (exceeded_any # -1 /\ start > 0) => epoch = exceeded_any
    /\ (pc = "done" /\ target_kl = None)
          => optimizer_steps = UpdateEpochs * MinibatchesPerEpoch

\* C6 as amended: once the approximate KL of the last minibatch of an epoch
\* exceeds the configured threshold, no later epoch of that update runs (an
\* earlier minibatch of the epoch does not stop the update); without a
\* threshold all update_epochs epochs run.
C6_LastMinibatchStops ==
    /\ exceeded_last # -1
          => /\ epoch = exceeded_last
             /\ pc \in {"klcheck", "done"}
             /\ optimizer_steps = (exceeded_last + 1) * MinibatchesPerEpoch
    /\ (pc = "done" /\ target_kl = None)
          => optimizer_steps = UpdateEpochs * MinibatchesPerEpoch

C6_Witness ==
    /\ pc = "done"
    /\ target_kl # None
    /\ exceeded_last = 0
    /\ epoch = 0
    /\ UpdateEpochs > 1
    /\ optimizer_steps = MinibatchesPerEpoch

\* C7: the clipped probability ratio of every minibatch element lies in
\* [1 - clip_coef, 1 + clip_coef], whatever the new and old
\* log-probabilities are.
C7_ClippedRatioBounded ==
    clamped_ratio # None
        => \A k \in DOMAIN clamped_ratio :
              /\ RLe(RSub(One, clip_coef), clamped_ratio[k])
              /\ RLe(clamped_ratio[k], RAdd(One, clip_coef))

C7_Witness ==
    /\ clamped_ratio # None
    /\ \E k \in DOMAIN clamped_ratio :
          /\ ratio[k] = Rat(1, 2)
          /\ clamped_ratio[k] = RSub(One, clip_coef)
    /\ \E k \in DOMAIN clamped_ratio :
          /\ ratio[k] = Rat(4, 1)
          /\ clamped_ratio[k] = RAdd(One, clip_coef)

\* C8: with value clipping the per-element value loss is the maximum of the
\* unclipped and the clipped squared error, never smaller than either, and
\* the clipped prediction stays within clip_coef of the old estimate;
\* without value clipping the loss is the plain squared error.
C8_ValueLoss ==
    newvalue # None
        => LET unclipped == [k \in DOMAIN mb_inds |->
                   Square(RSub(newvalue[k], Flat(returns, mb_inds[k])))]
           IN  IF clip_vloss
               THEN /\ \A k \in DOMAIN mb_inds :
                          LET clipped == Square(RSub(v_clipped[k],
                                                     Flat(returns, mb_inds[k])))
                              old == Flat(values, mb_inds[k])
                          IN  /\ v_loss_max[k] \in {unclipped[k], clipped}
                              /\ RLe(unclipped[k], v_loss_max[k])
                              /\ RLe(clipped, v_loss_max[k])
                              /\ RLe(RSub(old, clip_coef), v_clipped[k])
                              /\ RLe(v_clipped[k], RAdd(old, clip_coef))
                    /\ v_loss = RMul(Rat(1, 2), Mean(v_loss_max))
               ELSE v_loss = RMul(Rat(1, 2), Mean(unclipped))

C8_Witness ==
    /\ newvalue # None
    /\ clip_vloss
    /\ \E k \in DOMAIN mb_inds :
          /\ Flat(values, mb_inds[k]) = Zero
          /\ newvalue[k] = One
          /\ v_clipped[k] = clip_coef
          /\ v_loss_max[k] = Square(RSub(v_clipped[k], Flat(returns, mb_inds[k])))
          /\ v_loss_max[k] # Zero

\* the batch indices held by a minibatch
Members(mb) == {mb[k] : k \in DOMAIN mb}

\* the minibatches of a finished epoch are pairwise disjoint, hold no index
\* twice and together hold every batch index
PartitionsBatch(mbs) ==
    /\ \A m \in DOMAIN mbs : Cardinality(Members(mbs[m])) = Cardinality(DOMAIN mbs[m])
    /\ \A m, n \in DOMAIN mbs : m # n => Members(mbs[m]) \cap Members(mbs[n]) = {}
    /\ UNION {Members(mbs[m]) : m \in DOMAIN mbs} = 0 .. (BatchSize - 1)

C15_NextObservationPaired ==
    nxtobs # None
        => \A k \in UpdateRows : \A i \in Envs(num_envs) :
              nxtobs[k][i] = IF k < UpdateSteps - 1 THEN obs[k + 1][i] ELSE next_obs[i]

(* ----------------------------- reward recorder ------------------------ *)

\* lines 322-335: WandBRewardRecoder.__init__ around a vector environment
InitRecorder ==
    /\ num_envs \in EnvCounts
    /\ pc = "recorder"
    /\ next_done = None
    /\ dones = None
    /\ RolloutIdle
    /\ GaeIdle
    /\ AgentIdle
    /\ UpdateIdle
    /\ SetupDone
    /\ RecorderIdle

\* np.zeros(self.num_envs)
ZeroCounters(zero) == [i \in Envs(num_envs) |-> zero]

\* lines 337-345: reset
RecorderReset ==
    /\ Len(history) < MaxRecorderCalls
    /\ pc = "recorder"
    /\ episode_returns_saved' = ZeroCounters(Zero)
    /\ episode_lengths_saved' = ZeroCounters(0)
    /\ episode_returns' = ZeroCounters(Zero)
    /\ episode_lengths' = ZeroCounters(0)
    /\ history' = Append(history, << >>)
    /\ UNCHANGED <<sharedVars, rolloutVars, gaeVars, agentVars, updateVars,
                   setupVars, episode_count, logged>>

\* a slip in lines 378-379: a done flag clears the counters of every
\* environment
CountersAfterDoneAll(counters, d, zero) ==
    [i \in DOMAIN counters |-> IF \E j \in DOMAIN d : d[j] THEN zero ELSE counters[i]]

\* lines 378-379: the counters of the environments that finished are cleared
CountersAfterDone(counters, d, zero) ==
    [i \in DOMAIN counters |-> IF d[i] THEN zero ELSE counters[i]]

\* lines 347-385: step, with the rewards r and the done flags d returned by
\* the wrapped environment
RecorderStep ==
    /\ Len(history) < MaxRecorderCalls
    /\ pc = "recorder"
    /\ episode_returns # None
    /\ \E r \in [Envs(num_envs) -> RewardValues], d \in [Envs(num_envs) -> BOOLEAN] :
         LET returned == [i \in Envs(num_envs) |-> RAdd(episode_returns[i], r[i])]
             lengths == [i \in Envs(num_envs) |-> episode_lengths[i] + 1]
             finished == {i \in Envs(num_envs) : d[i]}
         IN  /\ logged' = [i \in finished |->
                    [rewards |-> RDiv(returned[i], Rat(lengths[i], 1)),
                     episode |-> episode_count
                                    + Cardinality({j \in finished : j < i}),
                     divisor |-> lengths[i]]]
             /\ episode_count' = episode_count + Cardinality(finished)
             /\ episode_returns_saved' =
                    [i \in Envs(num_envs) |->
                        IF d[i] THEN returned[i] ELSE episode_returns_saved[i]]
             /\ episode_lengths_saved' =
                    [i \in Envs(num_envs) |->
                        IF d[i] THEN lengths[i] ELSE episode_lengths_saved[i]]
             /\ episode_returns' = CountersAfterDone(returned, d, Zero)
             /\ episode_lengths' = CountersAfterDone(lengths, d, 0)
             /\ history' = Append(history, <<r, d>>)
    /\ UNCHANGED <<sharedVars, rolloutVars, gaeVars, agentVars, updateVars,
                   setupVars>>

NextRecorder == RecorderReset \/ RecorderStep

SpecRecorder == InitRecorder /\ [][NextRecorder]_vars

\* the last call that restarted the count of environment i: a reset or a
\* step that returned its done flag (0 when there is none)
LastBoundary(i) ==
    LET marks == {m \in 1 .. Len(history) :
                     Len(history[m]) = 0 \/ history[m][2][i]}
    IN  IF marks = {} THEN 0
        ELSE CHOOSE m \in marks : \A n \in marks : n <= m

RECURSIVE DonesIn(_)
\* the done flags returned by the first m calls
DonesIn(m) ==
    IF m = 0 THEN 0
    ELSE DonesIn(m - 1)
            + (IF Len(history[m]) = 0 THEN 0
               ELSE Cardinality({i \in Envs(num_envs) : history[m][2][i]}))

\* C19: after a reset and any sequence of steps, episode_lengths[i] counts
\* the steps since environment i's last done flag or the reset and
\* episode_returns[i] sums its rewards over those steps; episode_count is the
\* number of done flags seen; a done flag of environment i clears only its
\* own counters; the divisor of a logged mean reward is at least 1.
C19_RecorderStatistics ==
    (pc = "recorder" /\ episode_returns # None)
        => /\ \A i \in Envs(num_envs) :
                 /\ episode_lengths[i] = Len(history) - LastBoundary(i)
                 /\ episode_returns[i] =
                       RSum([m \in (LastBoundary(i) + 1) .. Len(history) |->
                                history[m][1][i]],
                            LastBoundary(i) + 1, Len(history))
           /\ episode_count = DonesIn(Len(history))
           /\ \A i \in DOMAIN logged : logged[i].divisor >= 1

C19_Witness ==
    /\ pc = "recorder"
    /\ num_envs = 2
    /\ Len(history) = 3
    /\ episode_lengths = (0 :> 0 @@ 1 :> 2)
    /\ episode_returns[1] = Rat(3, 1)
    /\ episode_count = 1
    /\ DOMAIN logged = {0}
    /\ logged[0].divisor = 2
    /\ logged[0].rewards = Rat(3, 2)

====
